---------------------------- MODULE Spec2Model ----------------------------
(***************************************************************************)
(* Restaurant rating prediction (Task 1): the train/test split of          *)
(* load_and_preprocess_data and the LinearRegressionModel object with its  *)
(* helpers (fit, predict, get_weights, get_feature_weights, feature        *)
(* ranking, save_model_weights, load_model_weights).                       *)
(*                                                                         *)
(* Conventions.  Python's None is the empty tuple and a present value v    *)
(* is the one-element tuple <<v>>.  Python sequences are 0-based; the      *)
(* TLA+ sequences that hold them are 1-based, element i of the Python      *)
(* list being element i+1 of the tuple.  Numbers that the program holds    *)
(* as float64 are exact rationals <<num, den>> with den > 0, in lowest     *)
(* terms.                                                                  *)
(***************************************************************************)
EXTENDS Integers, Sequences, FiniteSets, TLC

(***************************************************************************)
(* Bounds of the model.                                                    *)
(***************************************************************************)
\* largest dataset (rows of X) handed to the split
MaxN == 3
\* seeds are 0 .. MaxSeed
MaxSeed == 1
\* test_size is a multiple of 1/TestDen
TestDen == 4

None == <<>>
Some(v) == <<v>>

Min(a, b) == IF a < b THEN a ELSE b
Max(a, b) == IF a > b THEN a ELSE b

(***************************************************************************)
(* data_preprocessing.py: the split                                        *)
(***************************************************************************)
Sizes == 0 .. MaxN
Seeds == 0 .. MaxSeed
\* test_size = num / TestDen: negative, 0, inside (0,1), 1 and above 1
TestNums == {-1, 0, 1, TestDen - 1, TestDen, TestDen + 1}
Procs == {1, 2}

\* The process-wide generator behind np.random.  numpy's Mersenne Twister is
\* abstracted by a full-period congruential generator on 3 bits: what the
\* split relies on is only that seed() sets the state from the seed alone
\* and that every draw reads and advances the one shared state.
RngStates == 0 .. 7
rk_seed(seed) == seed % 8
rk_random(state) == (5 * state + 3) % 8

\* smallest 2^b - 1 that is >= max (the mask of rk_interval)
RECURSIVE MaskFrom(_, _)
MaskFrom(max, m) == IF m >= max THEN m ELSE MaskFrom(max, 2 * m + 1)
Mask(max) == MaskFrom(max, 0)

\* rk_interval(max, state): a value in 0..max by masked rejection sampling;
\* yields the value and the generator state after the draws.
RECURSIVE rk_interval(_, _)
rk_interval(max, state) ==
    IF max = 0 THEN [value |-> 0, state |-> state]
    ELSE LET s1 == rk_random(state)
             v  == s1 % (Mask(max) + 1)
         IN  IF v <= max THEN [value |-> v, state |-> s1]
             ELSE rk_interval(max, s1)

\* arr[i], arr[j] = arr[j], arr[i] on a 0-based array held 1-based
Swap(arr, i, j) == [arr EXCEPT ![i + 1] = arr[j + 1], ![j + 1] = arr[i + 1]]

\* shuffle: for i in reversed(range(1, n)): j = rk_interval(i); swap(i, j)
RECURSIVE Shuffle(_, _, _)
Shuffle(arr, i, state) ==
    IF i < 1 THEN [arr |-> arr, state |-> state]
    ELSE LET d == rk_interval(i, state)
         IN  Shuffle(Swap(arr, i, d.value), i - 1, d.state)

\* np.arange(n)
Arange(n) == [i \in 1 .. n |-> i - 1]

\* np.random.permutation(n) drawn from generator state `state`: the shuffled
\* arange(n) and the generator state afterwards (computed once per n, state)
PermutationTable ==
    [p \in Sizes \X RngStates |-> Shuffle(Arange(p[1]), p[1] - 1, p[2])] @@ << >>
Permutation(n, state) == PermutationTable[<<n, state>>]

\* int(x) of the float x = num / den, den > 0: truncation toward zero
IntTruncMutant(num, den) == (num + den - 1) \div den
IntTrunc(num, den) ==
    IF num >= 0 THEN num \div den ELSE -((-num) \div den)

\* split_idx = int((1 - test_size) * len(X)) with test_size = tnum / TestDen.
\* TestDen is a power of two and n is small, so the float64 subtraction and
\* product are exact and equal this rational.
SplitIdx(n, tnum) == IntTrunc((TestDen - tnum) * n, TestDen)

\* Python slice bounds: a negative bound counts from the end, and bounds
\* outside the sequence are clamped.
SliceBound(k, len) == IF k < 0 THEN Max(k + len, 0) ELSE Min(k, len)
\* seq[:k]
SliceTo(seq, k) == SubSeq(seq, 1, SliceBound(k, Len(seq)))
\* seq[k:]
SliceFromMutant(seq, k) ==
    SubSeq(seq, SliceBound(k, Len(seq)) + 2, Len(seq))
SliceFrom(seq, k) == SubSeq(seq, SliceBound(k, Len(seq)) + 1, Len(seq))

\* The cleaned table: row i carries feature value FeatureOf(i) and target
\* TargetOf(i) (X = df[all_features].values, y = df[target].values).
FeatureOf(i) == 10 + i
TargetOf(i) == 20 + i
\* X[idx] / y[idx]: fancy indexing by an index array
TakeX(idx) == [j \in 1 .. Len(idx) |-> FeatureOf(idx[j])]
TakeY(idx) == [j \in 1 .. Len(idx) |-> TargetOf(idx[j])]

\* lines 100-108: everything the split returns, from the drawn permutation
SplitOf(n, tnum, indices) ==
    LET split_idx     == SplitIdx(n, tnum)
        train_indices == SliceTo(indices, split_idx)
        test_indices  == SliceFrom(indices, split_idx)
    IN  [split_idx     |-> split_idx,
         indices       |-> indices,
         train_indices |-> train_indices,
         test_indices  |-> test_indices,
         X_train       |-> TakeX(train_indices),
         X_test        |-> TakeX(test_indices),
         y_train       |-> TakeY(train_indices),
         y_test        |-> TakeY(test_indices)]

(***************************************************************************)
(* Exact arithmetic for the float64 values of the model                    *)
(***************************************************************************)
Abs(x) == IF x < 0 THEN -x ELSE x
RECURSIVE GCD(_, _)
GCD(a, b) == IF b = 0 THEN a ELSE GCD(b, a % b)
\* num / den in lowest terms with a positive denominator
Rat(num, den) ==
    LET s == IF den < 0 THEN -1 ELSE 1
        g == GCD(Abs(num), Abs(den))
    IN  <<(s * num) \div g, (s * den) \div g>>
FromInt(i) == <<i, 1>>
Zero == FromInt(0)
One == FromInt(1)
RAdd(a, b) == Rat(a[1] * b[2] + b[1] * a[2], a[2] * b[2])
RNeg(a) == <<-a[1], a[2]>>
RMul(a, b) == Rat(a[1] * b[1], a[2] * b[2])
RDiv(a, b) == Rat(a[1] * b[2], a[2] * b[1])
\* (an absolute value that keeps the sign)
RAbsMutant(a) == a
RAbs(a) == <<Abs(a[1]), a[2]>>
RLess(a, b) == a[1] * b[2] < b[1] * a[2]

\* f[1] + ... + f[n]
RECURSIVE RSum(_, _)
RSum(f, n) == IF n = 0 THEN Zero ELSE RAdd(RSum(f, n - 1), f[n])

(***************************************************************************)
(* 2-D arrays: [r |-> rows, c |-> columns, a |-> the r rows of c entries]. *)
(* The shape is kept beside the entries because an array with no rows      *)
(* still has a column count.                                               *)
(***************************************************************************)
\* the r-by-c array whose entry (i, j) is f[i][j]
Matrix(r, c, f) ==
    [r |-> r, c |-> c,
     a |-> SubSeq([i \in 1 .. r |-> SubSeq(f[i], 1, c)], 1, r)]
\* A.T
Transpose(A) ==
    Matrix(A.c, A.r, [i \in 1 .. A.c |-> [j \in 1 .. A.r |-> A.a[j][i]]])
\* A @ B for 2-D A, B with A.c = B.r
MatMul(A, B) ==
    Matrix(A.r, B.c,
           [i \in 1 .. A.r |-> [j \in 1 .. B.c |->
               RSum([t \in 1 .. A.c |-> RMul(A.a[i][t], B.a[t][j])], A.c)]])
\* A @ v for 2-D A and 1-D v with A.c = Len(v)
MatVec(A, v) ==
    SubSeq([i \in 1 .. A.r |->
               RSum([t \in 1 .. A.c |-> RMul(A.a[i][t], v[t])], A.c)], 1, A.r)
MatAdd(A, B) ==
    Matrix(A.r, A.c,
           [i \in 1 .. A.r |-> [j \in 1 .. A.c |-> RAdd(A.a[i][j], B.a[i][j])]])
Scale(A, q) ==
    Matrix(A.r, A.c, [i \in 1 .. A.r |-> [j \in 1 .. A.c |-> RMul(A.a[i][j], q)]])
Identity(s) ==
    Matrix(s, s, [i \in 1 .. s |-> [j \in 1 .. s |-> IF i = j THEN One ELSE Zero]])
Trace(A) == RSum([i \in 1 .. A.r |-> A.a[i][i]], A.r)

\* Faddeev-LeVerrier recurrence on the square matrix A.  M is M_j and AM is
\* A M_j; c_j = -trace(A M_j) / j and M_(j+1) = A M_j + c_j I.  The result is
\* the last M_j whose characteristic coefficient c_j is not zero, with c_j.
RECURSIVE LastCoefficient(_, _, _, _, _)
CoefficientStep(A, M, j, lastM, lastC, AM, cj) ==
    IF cj = Zero
    THEN LastCoefficient(A, MatAdd(AM, Scale(Identity(A.r), cj)), j + 1, lastM, lastC)
    ELSE LastCoefficient(A, MatAdd(AM, Scale(Identity(A.r), cj)), j + 1, M, cj)
CoefficientOf(A, M, j, lastM, lastC, AM) ==
    CoefficientStep(A, M, j, lastM, lastC, AM, RDiv(RNeg(Trace(AM)), FromInt(j)))
LastCoefficient(A, M, j, lastM, lastC) ==
    IF j > A.r THEN [M |-> lastM, c |-> lastC]
    ELSE CoefficientOf(A, M, j, lastM, lastC, MatMul(A, M))

\* B A B
Sandwich(B, A) == MatMul(B, MatMul(A, B))
PinvFrom(A, f) ==
    IF f.c = Zero THEN Scale(A, Zero)
    ELSE Sandwich(Scale(f.M, RNeg(RDiv(One, f.c))), A)

\* (an inverse that gives up on a singular matrix, answering zeros)
PinvRegular(A) ==
    LET B == PinvFrom(A, LastCoefficient(A, Identity(A.r), 1, Identity(A.r), Zero))
    IN  IF MatMul(A, B) = Identity(A.r) THEN B ELSE Scale(A, Zero)
\* np.linalg.pinv(A) for the symmetric matrix A = X^T X: the Moore-Penrose
\* inverse, exactly.  With B = -M_r / c_r (the inverse of A on its range),
\* pinv(A) = B A B; the zero matrix has the zero matrix as its inverse.
Pinv(A) ==
    PinvFrom(A, LastCoefficient(A, Identity(A.r), 1, Identity(A.r), Zero))

(***************************************************************************)
(* model_training.py: LinearRegressionModel                                *)
(***************************************************************************)
\* feature values and targets of the arrays handed to fit and predict
XVals == {0, 1}
YVals == {0, 1}
\* at most MaxRows rows in an X and entries in a y
MaxRows == 1
\* column counts of a 2-D X
FeatureCounts == {0, 1}
\* feature names, in column order
AllNames == <<"A", "B", "C">>
NameCounts == 0 .. 2

\* A 1-D array: [ndim |-> 1, data |-> its entries]; a 0-d array (a bare
\* number in array clothing): [ndim |-> 0, data |-> <<the number>>].
Array1(data) == [ndim |-> 1, data |-> data]
Array0(x) == [ndim |-> 0, data |-> <<x>>]

\* An X handed to fit or predict: ndim 2 with shape (r, c), or ndim 1 with
\* shape (r,), held as one column.
X2D(r, c) ==
    {[ndim |-> 2, r |-> r, c |-> c, a |-> a] : a \in [1 .. r -> [1 .. c -> XVals]]}
X1D(r) ==
    {[ndim |-> 1, r |-> r, c |-> 1, a |-> a] : a \in [1 .. r -> [1 .. 1 -> XVals]]}
XInputs ==
    UNION {UNION {X2D(r, c) : c \in FeatureCounts} \cup X1D(r) : r \in 0 .. MaxRows}
YInputs == UNION {[1 .. m -> YVals] : m \in 0 .. MaxRows}

\* (a bias column of zeros)
WithBiasZeros(X) ==
    Matrix(X.r, X.c + 1,
           [i \in 1 .. X.r |-> [j \in 1 .. X.c + 1 |->
               IF j = 1 THEN Zero ELSE FromInt(X.a[i][j - 1])]])
\* np.c_[np.ones(X.shape[0]), X]: a column of ones before the columns of X
\* (a 1-D X counts as one column)
WithBias(X) ==
    Matrix(X.r, X.c + 1,
           [i \in 1 .. X.r |-> [j \in 1 .. X.c + 1 |->
               IF j = 1 THEN One ELSE FromInt(X.a[i][j - 1])]])

\* The exceptions of the program, by type and origin
NotTrained == "ValueError: Model not trained yet!"
ShapeError == "ValueError: matmul: operands do not match"
LengthError == "ValueError: All arrays must be of the same length"
SaveError == "ValueError: Expected 1D or 2D array"
IndexError == "IndexError"
FileError == "OSError: file not found"

\* what fit leaves behind: the exception it raises (None: it returns), and
\* the fields of the model after the call
FitOutcome(raised, new_weights, new_count) ==
    [raised |-> raised, weights |-> new_weights, feature_count |-> new_count]

\* lines 37-50.  X_with_bias.T @ y raises ValueError unless len(y) is the
\* row count; weights are assigned on line 45, before X.shape[1] on line 46
\* raises IndexError for a 1-D X.
\* lines 43-45: the weights from the bias-augmented X and a y of its length
\* (y as float64)
\* (weights without the inverse: X^T y)
NormalEquationMutant(X_with_bias, y) ==
    MatVec(Transpose(X_with_bias), y)
NormalEquation(X_with_bias, y) ==
    MatVec(Pinv(MatMul(Transpose(X_with_bias), X_with_bias)),
           MatVec(Transpose(X_with_bias), y))
AsFloats(y) == SubSeq([i \in 1 .. Len(y) |-> FromInt(y[i])], 1, Len(y))

\* The weights of every (X, y) with len(y) = X.shape[0], computed once.
FitWeights ==
    [p \in {q \in XInputs \X YInputs : Len(q[2]) = q[1].r} |->
        NormalEquation(WithBias(p[1]), AsFloats(p[2]))] @@ << >>

\* the weights fit computes for (X, y) with len(y) = X.shape[0]
WeightsFor(X, y) ==
    IF <<X, y>> \in DOMAIN FitWeights THEN FitWeights[<<X, y>>]
    ELSE NormalEquation(WithBias(X), AsFloats(y))

\* (a fit whose handler swallows the exception of a y of the wrong length)
FitMutant(old_weights, old_count, X, y) ==
    IF Len(y) # X.r
    THEN FitOutcome(None, old_weights, old_count)
    ELSE IF X.ndim = 1
    THEN FitOutcome(Some(IndexError), Some(Array1(WeightsFor(X, y))),
                    old_count)
    ELSE FitOutcome(None, Some(Array1(WeightsFor(X, y))), Some(X.c))
Fit(old_weights, old_count, X, y) ==
    IF Len(y) # X.r
    THEN FitOutcome(Some(ShapeError), old_weights, old_count)
    ELSE IF X.ndim = 1
    THEN FitOutcome(Some(IndexError), Some(Array1(WeightsFor(X, y))),
                    old_count)
    ELSE FitOutcome(None, Some(Array1(WeightsFor(X, y))), Some(X.c))

\* a call's result: the exception raised (None: none) and the value
\* returned (None: nothing was returned)
Raise(exc) == [raised |-> Some(exc), value |-> None]
Return(v) == [raised |-> None, value |-> Some(v)]

\* weights.size: the number of weights a model holds
NumWeights(w) == IF w.ndim = 0 THEN 1 ELSE Len(w.data)

\* lines 66-75.  X_with_bias @ self.weights raises ValueError unless the
\* weights are a 1-D array of as many entries as X_with_bias has columns.
\* (a predict that answers the bias when the shapes do not match)
PredictBiasOnly(model_weights, X) ==
    IF model_weights = None THEN Raise(NotTrained)
    ELSE IF model_weights[1].ndim # 1 \/ Len(model_weights[1].data) # X.c + 1
    THEN Return(Array1(SubSeq([i \in 1 .. X.r |-> model_weights[1].data[1]],
                              1, X.r)))
    ELSE Return(Array1(MatVec(WithBias(X), model_weights[1].data)))
\* (a predict that leaves the bias out)
PredictNoBias(model_weights, X) ==
    IF model_weights = None THEN Raise(NotTrained)
    ELSE IF model_weights[1].ndim # 1 \/ Len(model_weights[1].data) # X.c + 1
    THEN Raise(ShapeError)
    ELSE Return(Array1(MatVec(WithBias(X),
                              <<Zero>> \o Tail(model_weights[1].data))))
\* (a predict that answers for an unfit model)
PredictMutant(model_weights, X) ==
    IF model_weights = None THEN Return(Array1(<< >>))
    ELSE IF model_weights[1].ndim # 1 \/ Len(model_weights[1].data) # X.c + 1
    THEN Raise(ShapeError)
    ELSE Return(Array1(MatVec(WithBias(X), model_weights[1].data)))
Predict(model_weights, X) ==
    IF model_weights = None THEN Raise(NotTrained)
    ELSE IF model_weights[1].ndim # 1 \/ Len(model_weights[1].data) # X.c + 1
    THEN Raise(ShapeError)
    ELSE Return(Array1(MatVec(WithBias(X), model_weights[1].data)))

\* lines 86-88
GetWeights(model_weights) ==
    IF model_weights = None THEN Raise(NotTrained) ELSE Return(model_weights[1])

\* lines 99-101: weights[1:] (a 0-d array cannot be sliced)
\* (a slice that drops the last weight instead of the bias)
GetFeatureWeightsMutant(model_weights) ==
    IF model_weights = None THEN Raise(NotTrained)
    ELSE IF model_weights[1].ndim = 0 THEN Raise(IndexError)
    ELSE Return(Array1(SubSeq(model_weights[1].data, 1,
                              Len(model_weights[1].data) - 1)))
GetFeatureWeights(model_weights) ==
    IF model_weights = None THEN Raise(NotTrained)
    ELSE IF model_weights[1].ndim = 0 THEN Raise(IndexError)
    ELSE Return(Array1(Tail(model_weights[1].data)))

(***************************************************************************)
(* feature_analysis.py: analyze_feature_importance                         *)
(***************************************************************************)
\* the orders sort_values('Absolute Weight', ascending=False) may put the
\* rows 1..k in: absolute weight never increases; the default sort kind is
\* not a stable one, so rows of equal absolute weight come in any order
\* (a sort in ascending order)
RankOrdersAscending(fw) ==
    LET k == Len(fw)
    IN  {o \in [1 .. k -> 1 .. k] :
           /\ \A i, j \in 1 .. k : i # j => o[i] # o[j]
           /\ \A i \in 1 .. k - 1 : ~RLess(RAbs(fw[o[i + 1]]), RAbs(fw[o[i]]))}
RankOrders(fw) ==
    LET k == Len(fw)
    IN  {o \in [1 .. k -> 1 .. k] :
           /\ \A i, j \in 1 .. k : i # j => o[i] # o[j]
           /\ \A i \in 1 .. k - 1 : ~RLess(RAbs(fw[o[i]]), RAbs(fw[o[i + 1]]))}

\* lines 29-36: the rows (Feature, Weight, Absolute Weight) in order o
ImportanceTable(names, fw, o) ==
    SubSeq([i \in 1 .. Len(fw) |->
               [Feature |-> names[o[i]], Weight |-> fw[o[i]],
                AbsoluteWeight |-> RAbs(fw[o[i]])]], 1, Len(fw))

\* lines 25-98: the results analyze_feature_importance can have.  The
\* DataFrame constructor raises ValueError when the columns differ in
\* length; importance_df.iloc[0] on line 68 raises IndexError on an empty
\* table.
\* (a table cut to the shorter of the names and the weights)
AnalyzeTruncating(model_weights, names) ==
    LET g == GetFeatureWeights(model_weights)
    IN  IF g.raised # None THEN {g}
        ELSE LET fw == SubSeq(g.value[1].data, 1,
                              Min(Len(names), Len(g.value[1].data)))
             IN  IF Len(fw) = 0 THEN {Raise(IndexError)}
                 ELSE {Return(ImportanceTable(names, fw, o)) : o \in RankOrders(fw)}
AnalyzeFeatureImportance(model_weights, names) ==
    LET g == GetFeatureWeights(model_weights)
    IN  IF g.raised # None THEN {g}
        ELSE LET fw == g.value[1].data
             IN  IF Len(names) # Len(fw) THEN {Raise(LengthError)}
                 ELSE IF Len(fw) = 0 THEN {Raise(IndexError)}
                 ELSE {Return(ImportanceTable(names, fw, o)) : o \in RankOrders(fw)}

(***************************************************************************)
(* model_training.py: save_model_weights, load_model_weights               *)
(***************************************************************************)
\* np.savetxt writes each number with the format '%.18e': one digit, the
\* point, SaveDigits digits and a power of ten.
SaveDigits == 18
RECURSIVE Pow10(_)
Pow10(e) == IF e = 0 THEN 1 ELSE 10 * Pow10(e - 1)
\* the number of decimal places of q, a decimal fraction of at most
\* SaveDigits places
DecimalPlaces(q) ==
    CHOOSE j \in 0 .. SaveDigits :
        /\ Pow10(j) % q[2] = 0
        /\ \A i \in 0 .. j - 1 : Pow10(i) % q[2] # 0
\* mant * 10^exp without the zeros at the end of mant
RECURSIVE StripZeros(_, _)
StripZeros(mant, exp) ==
    IF mant # 0 /\ mant % 10 = 0 THEN StripZeros(mant \div 10, exp + 1)
    ELSE [mant |-> mant, exp |-> exp]
\* the line written for q: its digits (signed) and its power of ten; the
\* zeros that pad the digits to SaveDigits places are left out
FormatE(q) ==
    IF q[1] = 0 THEN [mant |-> 0, exp |-> 0]
    ELSE StripZeros(q[1] * (Pow10(DecimalPlaces(q)) \div q[2]),
                    0 - DecimalPlaces(q))
\* float(line)
ParseFloat(line) ==
    IF line.exp >= 0 THEN FromInt(line.mant * Pow10(line.exp))
    ELSE Rat(line.mant, Pow10(0 - line.exp))
FormatLines(data) == SubSeq([i \in 1 .. Len(data) |-> FormatE(data[i])], 1, Len(data))
ParseLines(lines) == SubSeq([i \in 1 .. Len(lines) |-> ParseFloat(lines[i])], 1, Len(lines))

\* np.savetxt(filename, weights): one number per line; a 0-d array is
\* refused with ValueError.  Yields the result and the file afterwards.
SaveModelWeights(model_weights, old_file) ==
    LET g == GetWeights(model_weights)
    IN  IF g.raised # None THEN [result |-> g, file |-> old_file]
        ELSE IF g.value[1].ndim = 0
             THEN [result |-> Raise(SaveError), file |-> old_file]
             ELSE [result |-> Return("saved"),
                   file |-> Some(FormatLines(g.value[1].data))]

\* np.loadtxt(filename) of a file of one number per line: a file of one
\* line loads as a 0-d array, any other as a 1-D array
LoadTxt(lines) ==
    IF Len(lines) = 1 THEN Array0(ParseFloat(lines[1]))
    ELSE Array1(ParseLines(lines))

\* lines 160-163: a new model whose weights are the loaded array and whose
\* feature_count is what __init__ set; OSError when there is no file
LoadModelWeights(file, old_weights, old_count) ==
    IF file = None THEN FitOutcome(Some(FileError), old_weights, old_count)
    ELSE FitOutcome(None, Some(LoadTxt(file[1])), None)

(***************************************************************************)
(* State.  rng is the generator state of the np.random module, shared by  *)
(* everything in the process.  A caller p of load_and_preprocess_data is   *)
(* "idle" before its call, "seeded" between line 98 and line 99, "done"    *)
(* after the return; args[p] are the arguments of its call and out[p] what *)
(* the call returned (None before the return).                             *)
(* X_train, y_train are the arrays task1_main hands to                     *)
(* train_linear_regression, feature_names the list it hands to            *)
(* analyze_feature_importance; y_true, y_pred the arrays it hands to       *)
(* evaluate_model, metrics the dict that call returned and swapped the     *)
(* dict of the call with the two arrays exchanged (None: not called yet).  *)
(* restaurants is the table self.df of the RestaurantRecommender and       *)
(* features_prepared its flag; request is the call made on it and result   *)
(* the table that call returned (None: not called yet).  location_df is    *)
(* the table handed to clean_coordinates, which changes it in place.       *)
VARIABLES rng, pc, args, out, weights, feature_count, the_file, call,
          X_train, y_train, feature_names, y_true, y_pred, metrics, swapped,
          restaurants, features_prepared, request, result, location_df
splitVars == <<rng, pc, args, out>>
modelVars == <<weights, feature_count, the_file, call>>
trainVars == <<X_train, y_train, feature_names>>
evalVars == <<y_true, y_pred, metrics, swapped>>
recVars == <<restaurants, features_prepared, request, result>>
locVars == <<location_df>>
dataVars == <<trainVars, evalVars, recVars, locVars>>
vars == <<splitVars, modelVars, dataVars>>

(***************************************************************************)
(* The model object.  The program holds one LinearRegressionModel in its   *)
(* variable `model`; weights and feature_count are the fields of the       *)
(* object that variable refers to.  the_file is the weight file on disk    *)
(* (None: no file).  call is the latest call, with the shapes of its       *)
(* arguments (and the entries of its X), the exception it raised and the   *)
(* value it returned.                                                      *)
(***************************************************************************)
NoShape ==
    [ndim |-> 0, rows |-> 0, cols |-> 0, ylen |-> 0, names |-> 0, a |-> << >>]
XShape(X) ==
    [NoShape EXCEPT !.ndim = X.ndim, !.rows = X.r, !.cols = X.c, !.a = X.a]
Call(op, shape, raised, value) ==
    [op |-> op, shape |-> shape, raised |-> raised, value |-> value]

\* model = LinearRegressionModel(); nothing saved yet
ModelStart ==
    /\ weights = None
    /\ feature_count = None
    /\ the_file = None
    /\ call = Call("__init__", NoShape, None, None)

\* no arrays made yet
NoTraining ==
    /\ X_train = [ndim |-> 2, r |-> 0, c |-> 0, a |-> << >>]
    /\ y_train = << >>
    /\ feature_names = << >>
NoRecommender ==
    /\ restaurants = << >>
    /\ features_prepared = FALSE
    /\ request = None
    /\ result = None
NoLocations == location_df = << >>
NoEvaluation ==
    /\ y_true = Array1(<< >>)
    /\ y_pred = Array1(<< >>)
    /\ metrics = None
    /\ swapped = None

NoArgs == [n |-> 0, tnum |-> 0, seed |-> 0]
ArgsOf(n, tnum, seed) == [n |-> n, tnum |-> tnum, seed |-> seed]

SplitStart ==
    /\ rng \in RngStates
    /\ pc = [p \in Procs |-> "idle"]
    /\ args = [p \in Procs |-> NoArgs]
    /\ out = [p \in Procs |-> None]

\* line 98, np.random.seed(random_state): the generator state afterwards
SeededStateMutant(current, seed) == current
SeededState(current, seed) == rk_seed(seed)

\* load_and_preprocess_data (lines 97-114) run by caller p without
\* interruption: seed, draw the permutation, slice, index, return.
Split(p, n, tnum, seed) ==
    LET perm == Permutation(n, SeededState(rng, seed))
    IN  /\ rng' = perm.state
        /\ pc' = [pc EXCEPT ![p] = "done"]
        /\ args' = [args EXCEPT ![p] = ArgsOf(n, tnum, seed)]
        /\ out' = [out EXCEPT ![p] = Some(SplitOf(n, tnum, perm.arr))]
        /\ UNCHANGED <<modelVars, dataVars>>

\* Caller 1 makes one call, whose result is kept for comparison.
FirstSplit ==
    /\ pc[1] = "idle"
    /\ \E n \in Sizes, tnum \in TestNums, seed \in Seeds : Split(1, n, tnum, seed)

\* Caller 2 calls any number of times, before and after caller 1.
LaterSplit ==
    \E n \in Sizes, tnum \in TestNums, seed \in Seeds : Split(2, n, tnum, seed)

\* any other draw from np.random made by the process
RandomDraw ==
    /\ rng' = rk_random(rng)
    /\ UNCHANGED <<pc, args, out>>
    /\ UNCHANGED <<modelVars, dataVars>>

SplitNext == FirstSplit \/ LaterSplit \/ RandomDraw

\* Sequential program: every call of the split runs to its return.
SplitInit == SplitStart /\ ModelStart /\ NoTraining /\ NoEvaluation
             /\ NoRecommender /\ NoLocations

Spec == SplitInit /\ [][SplitNext]_vars

(***************************************************************************)
(* Two threads inside load_and_preprocess_data at once: the call is cut    *)
(* between line 98 (seed) and line 99 (permutation), the two statements    *)
(* that touch the shared generator.                                        *)
(***************************************************************************)
SeedStep(p) ==
    /\ pc[p] = "idle"
    /\ \E n \in Sizes, tnum \in TestNums, seed \in Seeds :
          /\ rng' = SeededState(rng, seed)
          /\ args' = [args EXCEPT ![p] = ArgsOf(n, tnum, seed)]
    /\ pc' = [pc EXCEPT ![p] = "seeded"]
    /\ UNCHANGED out
    /\ UNCHANGED <<modelVars, dataVars>>

DrawStep(p) ==
    /\ pc[p] = "seeded"
    /\ LET perm == Permutation(args[p].n, rng)
       IN  /\ rng' = perm.state
           /\ out' = [out EXCEPT
                        ![p] = Some(SplitOf(args[p].n, args[p].tnum, perm.arr))]
    /\ pc' = [pc EXCEPT ![p] = "done"]
    /\ UNCHANGED args
    /\ UNCHANGED <<modelVars, dataVars>>

ConcNext == \E p \in Procs : SeedStep(p) \/ DrawStep(p)

SpecConc == SplitInit /\ [][ConcNext]_vars

(***************************************************************************)
(* Properties of the split                                                 *)
(***************************************************************************)
Elems(seq) == {seq[i] : i \in 1 .. Len(seq)}
Returned(p) == pc[p] = "done" /\ out[p] # None
\* floor(num / den) for den > 0
Floor(num, den) == num \div den
\* the permutation a call with this seed draws when nothing interferes
SeededPermutation(n, seed) == Permutation(n, rk_seed(seed)).arr

\* C1: for every dataset size, test fraction and seed, the train and test
\* index sets of a returned split are disjoint, together they are exactly
\* {0..n-1}, and |train| + |test| = n (no index omitted, none duplicated).
PartitionComplete ==
    \A p \in Procs : Returned(p) =>
        LET o == out[p][1]
            n == args[p].n
        IN  /\ Elems(o.train_indices) \cap Elems(o.test_indices) = {}
            /\ Elems(o.train_indices) \cup Elems(o.test_indices) = 0 .. (n - 1)
            /\ Len(o.train_indices) + Len(o.test_indices) = n
            /\ Len(o.X_train) + Len(o.X_test) = n
            /\ Len(o.y_train) + Len(o.y_test) = n

\* a split of a dataset of MaxN rows with both parts non-empty has returned
PartitionWitness ==
    \E p \in Procs :
        /\ Returned(p)
        /\ args[p].n = MaxN
        /\ out[p][1].train_indices # << >>
        /\ out[p][1].test_indices # << >>

\* C2: with test_size in [0, 1], cut = floor(n * (1 - test_size)); train is
\* the first cut entries of the seeded permutation and test the remaining
\* n - cut, both in permutation order, and features and targets are taken
\* at the same indices.
CutIsFloor ==
    \A p \in Procs :
        (Returned(p) /\ args[p].tnum >= 0 /\ args[p].tnum <= TestDen) =>
        LET o    == out[p][1]
            n    == args[p].n
            perm == SeededPermutation(n, args[p].seed)
            cut  == Floor(n * (TestDen - args[p].tnum), TestDen)
        IN  /\ o.split_idx = cut
            /\ o.train_indices = SubSeq(perm, 1, cut)
            /\ o.test_indices = SubSeq(perm, cut + 1, n)
            /\ Len(o.test_indices) = n - cut
            /\ \A j \in 1 .. Len(o.train_indices) :
                  /\ o.X_train[j] = FeatureOf(o.train_indices[j])
                  /\ o.y_train[j] = TargetOf(o.train_indices[j])
            /\ \A j \in 1 .. Len(o.test_indices) :
                  /\ o.X_test[j] = FeatureOf(o.test_indices[j])
                  /\ o.y_test[j] = TargetOf(o.test_indices[j])

\* a split with a fractional n * (1 - test_size) whose permutation is not
\* the identity has returned, with both parts non-empty
CutWitness ==
    \E p \in Procs :
        /\ Returned(p)
        /\ args[p].tnum > 0 /\ args[p].tnum < TestDen
        /\ (args[p].n * (TestDen - args[p].tnum)) % TestDen # 0
        /\ out[p][1].indices # Arange(args[p].n)
        /\ out[p][1].train_indices # << >>
        /\ out[p][1].test_indices # << >>

\* C3: two calls of the split with the same (n, test_size, seed) return the
\* same partition, whatever draws and other splits ran between them.
SplitDeterministic ==
    \A p, q \in Procs :
        (Returned(p) /\ Returned(q) /\ args[p] = args[q]) => out[p] = out[q]

\* both callers have returned from calls with equal arguments on a dataset
\* of at least two rows
DeterminismWitness ==
    /\ Returned(1) /\ Returned(2)
    /\ args[1] = args[2]
    /\ args[1].n >= 2
    /\ out[1][1].train_indices # << >>
    /\ out[1][1].test_indices # << >>

\* the arguments the split's contract admits
ValidArgs(a) == a.n >= 1 /\ a.tnum > 0 /\ a.tnum < TestDen

\* C4: two splits with different seeds running concurrently each obtain
\* the partition they would obtain when run alone.
ConcurrentSplitsIndependent ==
    \A p, q \in Procs :
        (/\ p # q /\ Returned(p) /\ pc[q] # "idle"
         /\ args[p].seed # args[q].seed
         /\ ValidArgs(args[p]) /\ ValidArgs(args[q])) =>
        out[p][1] = SplitOf(args[p].n, args[p].tnum,
                            SeededPermutation(args[p].n, args[p].seed))

\* C5: the split fails, returning no subsets, when the dataset is empty or
\* test_size is not strictly between 0 and 1.
InvalidInputRejected ==
    \A p \in Procs :
        (pc[p] = "done" /\ (args[p].n = 0 \/ args[p].tnum <= 0
                                          \/ args[p].tnum >= TestDen))
            => out[p] = None

(***************************************************************************)
(* Operations on the model objects                                         *)
(***************************************************************************)
\* model = LinearRegressionModel()  (lines 21-24): a new, unfit object
Construct ==
    /\ weights' = None
    /\ feature_count' = None
    /\ call' = Call("__init__", NoShape, None, None)
    /\ UNCHANGED the_file
    /\ UNCHANGED <<splitVars, dataVars>>

\* model.fit(X, y).  train_linear_regression(X, y) is Construct followed by
\* this call and two reads of the fit model.
FitCall ==
    \E X \in XInputs, y \in YInputs :
        \E f \in {Fit(weights, feature_count, X, y)} :
            /\ weights' = f.weights
            /\ feature_count' = f.feature_count
            /\ call' = Call("fit", [XShape(X) EXCEPT !.ylen = Len(y)],
                            f.raised, None)
            /\ UNCHANGED the_file
            /\ UNCHANGED <<splitVars, dataVars>>

\* model.predict(X)
PredictCall ==
    \E X \in XInputs :
        \E r \in {Predict(weights, X)} :
            /\ call' = Call("predict", XShape(X), r.raised, r.value)
            /\ UNCHANGED <<weights, feature_count, the_file>>
            /\ UNCHANGED <<splitVars, dataVars>>

\* model.get_weights()
GetWeightsCall ==
    \E r \in {GetWeights(weights)} :
        /\ call' = Call("get_weights", NoShape, r.raised, r.value)
        /\ UNCHANGED <<weights, feature_count, the_file>>
        /\ UNCHANGED <<splitVars, dataVars>>

\* (a get_feature_weights that strips the bias from the model itself)
GetFeatureWeightsCallMutant ==
    \E r \in {GetFeatureWeights(weights)} :
        /\ call' = Call("get_feature_weights", NoShape, r.raised, r.value)
        /\ weights' = IF r.raised = None THEN r.value ELSE weights
        /\ UNCHANGED <<feature_count, the_file>>
        /\ UNCHANGED <<splitVars, dataVars>>

\* model.get_feature_weights()
GetFeatureWeightsCall ==
    \E r \in {GetFeatureWeights(weights)} :
        /\ call' = Call("get_feature_weights", NoShape, r.raised, r.value)
        /\ UNCHANGED <<weights, feature_count, the_file>>
        /\ UNCHANGED <<splitVars, dataVars>>

\* analyze_feature_importance(model, feature_names)
AnalyzeCall ==
    \E c \in NameCounts :
        \E r \in AnalyzeFeatureImportance(weights, SubSeq(AllNames, 1, c)) :
            /\ call' = Call("analyze_feature_importance",
                            [NoShape EXCEPT !.names = c], r.raised, r.value)
            /\ UNCHANGED <<weights, feature_count, the_file>>
            /\ UNCHANGED <<splitVars, dataVars>>

\* save_model_weights(model)
SaveCall ==
    \E s \in {SaveModelWeights(weights, the_file)} :
        /\ the_file' = s.file
        /\ call' = Call("save_model_weights", NoShape,
                        s.result.raised, s.result.value)
        /\ UNCHANGED <<weights, feature_count>>
        /\ UNCHANGED <<splitVars, dataVars>>

\* model = load_model_weights(): `model` is bound to the new object when
\* the call returns, and keeps the old one when it raises
LoadCall ==
    \E l \in {LoadModelWeights(the_file, weights, feature_count)} :
        /\ weights' = l.weights
        /\ feature_count' = l.feature_count
        /\ call' = Call("load_model_weights", NoShape, l.raised, None)
        /\ UNCHANGED the_file
        /\ UNCHANGED <<splitVars, dataVars>>

ModelNext ==
    \/ Construct
    \/ FitCall
    \/ PredictCall
    \/ GetWeightsCall
    \/ GetFeatureWeightsCall
    \/ AnalyzeCall
    \/ SaveCall
    \/ LoadCall

\* The model object alone: the split is not running.
ModelInit ==
    /\ rng = 0
    /\ pc = [p \in Procs |-> "idle"]
    /\ args = [p \in Procs |-> NoArgs]
    /\ out = [p \in Procs |-> None]
    /\ ModelStart
    /\ NoTraining
    /\ NoEvaluation
    /\ NoRecommender
    /\ NoLocations

SpecModel == ModelInit /\ [][ModelNext]_vars

(***************************************************************************)
(* Properties of the model object                                          *)
(***************************************************************************)
\* the calls that read the model
ReadOps == {"predict", "get_weights", "get_feature_weights",
            "analyze_feature_importance", "save_model_weights"}
\* the calls that bind `model` to another object
BindOps == {"__init__", "load_model_weights"}

\* C6: on a model whose weights were never set, predict, get_weights,
\* get_feature_weights, feature ranking and weight saving raise the
\* not-fit error and return no value, write no file, and the model stays
\* unfit; a new model is unfit.
UnfitModelRefuses ==
    [][/\ (weights = None /\ call'.op \in ReadOps) =>
            /\ call'.raised = Some(NotTrained)
            /\ call'.value = None
            /\ weights' = None
            /\ the_file' = the_file
       /\ (call'.op = "__init__") => weights' = None]_vars

\* predict has been refused on the unfit model
UnfitWitness ==
    /\ weights = None
    /\ call.op = "predict"
    /\ call.raised = Some(NotTrained)

WellFormed ==
    \/ weights = None
    \/ /\ weights[1].ndim = 1
       /\ feature_count # None
       /\ Len(weights[1].data) = feature_count[1] + 1
       /\ GetFeatureWeights(weights) =
             Return(Array1(SubSeq(weights[1].data, 2, feature_count[1] + 1)))

\* C8: a model that was just constructed, fit or returned by
\* load_model_weights is unfit or has a weight vector of length k+1 for
\* its recorded feature count k.
ModelWellFormed ==
    (call.op \in {"__init__", "fit", "load_model_weights"} /\ call.raised = None)
        => WellFormed

\* C9: fit with a y whose length differs from the number of rows of X
\* raises the dimension error and leaves the model as it was (an unfit
\* model stays unfit).
FitRejectsLengthMismatch ==
    [][(call'.op = "fit" /\ call'.shape.ylen # call'.shape.rows) =>
          /\ call'.raised = Some(ShapeError)
          /\ weights' = weights
          /\ feature_count' = feature_count]_vars

\* fit has raised for a y of the wrong length on an unfit model
LengthMismatchWitness ==
    /\ call.op = "fit"
    /\ call.shape.ylen # call.shape.rows
    /\ call.raised = Some(ShapeError)
    /\ weights = None

\* C10: fit with an X of n >= 1 rows and 0 columns fails with the
\* dimension error; it never yields a model with only a bias weight.
FitRejectsZeroColumns ==
    (/\ call.op = "fit"
     /\ call.shape.ndim = 2 /\ call.shape.cols = 0 /\ call.shape.rows >= 1)
        => (call.raised = Some(ShapeError) /\ weights = None)

\* C11: predict on a model that has weights, one restored by
\* load_model_weights included, with an X whose column count is not the
\* number of weights less one raises the dimension error and returns no
\* predictions.
PredictRejectsWrongColumns ==
    (/\ call.op = "predict"
     /\ weights # None
     /\ call.shape.cols # NumWeights(weights[1]) - 1)
        => (call.raised = Some(ShapeError) /\ call.value = None)

\* predict has raised on a model restored from the weight file, for an X
\* of another column count than the model's
WrongColumnsWitness ==
    /\ call.op = "predict"
    /\ weights # None /\ feature_count = None
    /\ weights[1].ndim = 1
    /\ the_file # None
    /\ LoadTxt(the_file[1]) = weights[1]
    /\ call.shape.cols # Len(weights[1].data) - 1
    /\ call.raised = Some(ShapeError)

\* C12: predict on a model with the weight vector w and an m-by-k X, k + 1
\* the length of w, returns m predictions, the i-th being
\* w[0] + sum over j of w[j] * X[i][j-1].
PredictIsAffine ==
    (/\ call.op = "predict"
     /\ weights # None
     /\ weights[1].ndim = 1
     /\ call.shape.cols = Len(weights[1].data) - 1) =>
        LET w == weights[1].data
            m == call.shape.rows
            k == call.shape.cols
            X == call.shape.a
        IN  /\ call.raised = None
            /\ call.value # None
            /\ call.value[1].ndim = 1
            /\ Len(call.value[1].data) = m
            /\ \A i \in 1 .. m :
                  call.value[1].data[i] =
                      RAdd(w[1], RSum([j \in 1 .. k |->
                                         RMul(w[j + 1], FromInt(X[i][j]))], k))

\* predict has returned for a row with a feature that is not zero, on a
\* model whose bias and feature weight are not zero
AffineWitness ==
    /\ call.op = "predict" /\ call.raised = None
    /\ call.shape.rows >= 1 /\ call.shape.cols >= 1
    /\ call.shape.a[1][1] # 0
    /\ weights[1].data[1] # Zero
    /\ weights[1].data[2] # Zero

(***************************************************************************)
(* Training as task1_main does it: train_linear_regression(X_train,        *)
(* y_train), then predictions for the training features.                   *)
(***************************************************************************)
\* at most MaxTrainRows rows in a training set
MaxTrainRows == 2
\* column counts and target values of the training sets
TrainFeatureCounts == {1, 2}
TrainYVals == 0 .. 2
\* four points on the line y = 2 x
ToyX == [ndim |-> 2, r |-> 4, c |-> 1, a |-> <<<<0>>, <<1>>, <<2>>, <<3>>>>]
ToyY == <<0, 2, 4, 6>>
\* the (X_train, y_train) of equal length: every 0/1 design of 1 or 2
\* columns, constant and identical columns among them, with every y
TrainSets ==
    {<<ToyX, ToyY>>} \cup
    UNION {X2D(r, c) \X [1 .. r -> TrainYVals] :
              r \in 1 .. MaxTrainRows, c \in TrainFeatureCounts}

\* model = train_linear_regression(X_train, y_train)  (lines 119-127):
\* a new object is fit and read; `model` is bound to it when the call
\* returns
TrainCall ==
    \E f \in {Fit(None, None, X_train, y_train)} :
        /\ weights' = IF f.raised = None THEN f.weights ELSE weights
        /\ feature_count' =
              IF f.raised = None THEN f.feature_count ELSE feature_count
        /\ call' = Call("train_linear_regression",
                        [XShape(X_train) EXCEPT !.ylen = Len(y_train)],
                        f.raised, None)
        /\ UNCHANGED the_file
        /\ UNCHANGED <<splitVars, dataVars>>

\* model.predict(X_train)
PredictTrainCall ==
    \E r \in {Predict(weights, X_train)} :
        /\ call' = Call("predict", XShape(X_train), r.raised, r.value)
        /\ UNCHANGED <<weights, feature_count, the_file>>
        /\ UNCHANGED <<splitVars, dataVars>>

FitNext == TrainCall \/ PredictTrainCall

\* The training set is any of TrainSets; nothing is fit yet.
FitInit ==
    /\ rng = 0
    /\ pc = [p \in Procs |-> "idle"]
    /\ args = [p \in Procs |-> NoArgs]
    /\ out = [p \in Procs |-> None]
    /\ ModelStart
    /\ \E d \in TrainSets : X_train = d[1] /\ y_train = d[2]
    /\ feature_names = << >>
    /\ NoEvaluation
    /\ NoRecommender
    /\ NoLocations

SpecFit == FitInit /\ [][FitNext]_vars

\* C13: fitting X = [[0],[1],[2],[3]], y = [0,2,4,6] gives the weights
\* [0, 2]: bias 0, slope 2.
ToyFitExact ==
    (/\ X_train = ToyX /\ y_train = ToyY
     /\ call.op = "train_linear_regression") =>
        /\ call.raised = None
        /\ weights = Some(Array1(<<FromInt(0), FromInt(2)>>))

\* the toy training set has been fit
ToyWitness ==
    /\ X_train = ToyX /\ y_train = ToyY
    /\ call.op = "train_linear_regression"
    /\ weights # None

\* coefficients of the affine functions the targets are compared with
Coefs == -2 .. 2
\* y is an exactly affine function of the features of X
IsAffine(X, y) ==
    \E b \in Coefs, w \in [1 .. X.c -> Coefs] :
        \A i \in 1 .. X.r :
            FromInt(y[i]) =
                RAdd(FromInt(b), RSum([j \in 1 .. X.c |->
                                         FromInt(w[j] * X.a[i][j])], X.c))

\* C14: when y_train is an exactly affine function of the features, the
\* predictions of the fit model for X_train are y_train.
PredictionConsistent ==
    (/\ call.op = "predict"
     /\ weights # None
     /\ IsAffine(X_train, y_train)) =>
        /\ call.raised = None
        /\ call.value = Some(Array1(AsFloats(y_train)))

\* predictions have been made for a training set of two different rows
\* and two columns whose targets are affine and not constant
ConsistencyWitness ==
    /\ call.op = "predict" /\ call.raised = None
    /\ X_train.r = 2 /\ X_train.c = 2
    /\ X_train.a[1] # X_train.a[2]
    /\ y_train[1] # y_train[2]
    /\ IsAffine(X_train, y_train)

\* X'^T (X' w - y) = 0: w is a least-squares solution for (X, y)
IsLeastSquares(X_with_bias, w, y) ==
    MatVec(MatMul(Transpose(X_with_bias), X_with_bias), w) =
        MatVec(Transpose(X_with_bias), y)

\* C15: fit of a non-empty X of k >= 1 columns and a y of its length, a
\* constant column or two identical columns included, returns without
\* raising and stores k + 1 weights that are a least-squares solution.
FitHandlesSingular ==
    (call.op = "train_linear_regression") =>
        /\ call.raised = None
        /\ weights # None
        /\ weights[1].ndim = 1
        /\ Len(weights[1].data) = X_train.c + 1
        /\ feature_count = Some(X_train.c)
        /\ IsLeastSquares(WithBias(X_train), weights[1].data,
                          AsFloats(y_train))

\* a training set with two identical columns that are not constant and a
\* target that is not zero has been fit
SingularWitness ==
    /\ call.op = "train_linear_regression" /\ call.raised = None
    /\ X_train.r = 2 /\ X_train.c = 2
    /\ \A i \in 1 .. 2 : X_train.a[i][1] = X_train.a[i][2]
    /\ X_train.a[1][1] # X_train.a[2][1]
    /\ y_train[1] # 0

(***************************************************************************)
(* model_evaluation.py: calculate_metrics, evaluate_model                  *)
(***************************************************************************)
\* A float64 scalar: q * sqrt(root) for a rational q and a square-free
\* root (1 unless the scalar is a square root), or inf, -inf, nan.
Fin(q) == [kind |-> "finite", q |-> q, root |-> 1]
NaN == [kind |-> "nan", q |-> Zero, root |-> 1]
PosInf == [kind |-> "inf", q |-> One, root |-> 1]
NegInf == [kind |-> "inf", q |-> RNeg(One), root |-> 1]

\* a / b of float64 scalars a, b that are finite: numpy warns and gives
\* nan for 0/0, an infinity of the sign of a for a/0
FDivGuarded(a, b) ==
    IF b.q = Zero THEN Fin(Zero) ELSE Fin(RDiv(a.q, b.q))
FDiv(a, b) ==
    IF b.q # Zero THEN Fin(RDiv(a.q, b.q))
    ELSE IF a.q = Zero THEN NaN
    ELSE IF RLess(a.q, Zero) THEN NegInf ELSE PosInf
\* 1 - x
OneMinus(x) ==
    IF x.kind = "finite" THEN Fin(RAdd(One, RNeg(x.q)))
    ELSE IF x.kind = "nan" THEN NaN
    ELSE IF x = PosInf THEN NegInf ELSE PosInf
\* the largest s whose square divides n >= 1
SquarePart(n) ==
    CHOOSE s \in 1 .. n :
        /\ n % (s * s) = 0
        /\ \A t \in (s + 1) .. n : n % (t * t) # 0
\* np.sqrt(x) of a scalar that is nan or a rational a/b >= 0:
\* sqrt(a/b) = sqrt(a b) / b = (s / b) sqrt(r) with a b = s^2 r
SqrtMutant(x) == x
Sqrt(x) ==
    IF x.kind # "finite" THEN x
    ELSE IF x.q = Zero THEN Fin(Zero)
    ELSE LET n == x.q[1] * x.q[2]
             s == SquarePart(n)
         IN  [kind |-> "finite", q |-> Rat(s, x.q[2]), root |-> n \div (s * s)]

BroadcastError == "ValueError: operands could not be broadcast together"
\* shapes (n,) and (m,) broadcast when equal or when one of them is (1,)
CanBroadcast(n, m) == n = m \/ n = 1 \/ m = 1
BroadcastLen(n, m) == IF n = 1 THEN m ELSE n
\* entry i of v stretched to the broadcast length
At(v, i) == IF Len(v) = 1 THEN v[1] ELSE v[i]
\* y_true - y_pred
Diff(a, b) ==
    SubSeq([i \in 1 .. BroadcastLen(Len(a), Len(b)) |->
               RAdd(FromInt(At(a, i)), RNeg(FromInt(At(b, i))))],
           1, BroadcastLen(Len(a), Len(b)))
Squares(v) == SubSeq([i \in 1 .. Len(v) |-> RMul(v[i], v[i])], 1, Len(v))
Absolutes(v) == SubSeq([i \in 1 .. Len(v) |-> RAbs(v[i])], 1, Len(v))
\* np.sum(v), np.mean(v); the mean of an empty array is nan
Sum(v) == Fin(RSum(v, Len(v)))
Mean(v) == FDiv(Sum(v), Fin(FromInt(Len(v))))
\* y_true - np.mean(y_true); empty for an empty y_true
Deviations(y) ==
    SubSeq([i \in 1 .. Len(y) |->
               RAdd(FromInt(y[i]), RNeg(Mean(AsFloats(y)).q))], 1, Len(y))
\* line 41
R2OfMutant(ss_res, ss_tot) == FDiv(ss_res, ss_tot)
R2Of(ss_res, ss_tot) == OneMinus(FDiv(ss_res, ss_tot))
\* lines 30-48, d the array y_true - y_pred
MetricsOf(d, y) ==
    [mse  |-> Mean(Squares(d)),
     rmse |-> Sqrt(Mean(Squares(d))),
     mae  |-> Mean(Absolutes(d)),
     r2   |-> R2Of(Sum(Squares(d)), Sum(Squares(Deviations(y))))]
\* calculate_metrics(y_true, y_pred) for 1-D arrays
CalculateMetrics(a, b) ==
    IF ~CanBroadcast(Len(a.data), Len(b.data)) THEN Raise(BroadcastError)
    ELSE Return(MetricsOf(Diff(a.data, b.data), a.data))
\* evaluate_model(y_true, y_pred), lines 69-70
EvaluateModel(a, b) == CalculateMetrics(a, b)

\* at most MaxEvalLen entries in y_true and in y_pred, each in EvalVals
MaxEvalLen == 2
EvalVals == 0 .. 2
EvalInputs == {Array1(v) : v \in UNION {[1 .. n -> EvalVals] : n \in 0 .. MaxEvalLen}}

\* metrics = evaluate_model(y_true, y_pred); metrics holds the outcome of
\* the call, its exception or its dict
EvaluateCall ==
    /\ metrics' = Some(EvaluateModel(y_true, y_pred))
    /\ UNCHANGED <<y_true, y_pred, swapped>>
    /\ UNCHANGED <<splitVars, modelVars, trainVars, recVars, locVars>>

\* evaluate_model(y_pred, y_true): the same two arrays in exchanged roles
SwappedCall ==
    /\ swapped' = Some(EvaluateModel(y_pred, y_true))
    /\ UNCHANGED <<y_true, y_pred, metrics>>
    /\ UNCHANGED <<splitVars, modelVars, trainVars, recVars, locVars>>

EvalNext == EvaluateCall \/ SwappedCall

\* y_true and y_pred are any two of EvalInputs; nothing is evaluated yet.
EvalInit ==
    /\ rng = 0
    /\ pc = [p \in Procs |-> "idle"]
    /\ args = [p \in Procs |-> NoArgs]
    /\ out = [p \in Procs |-> None]
    /\ ModelStart
    /\ NoTraining
    /\ y_true \in EvalInputs
    /\ y_pred \in EvalInputs
    /\ metrics = None
    /\ swapped = None
    /\ NoRecommender
    /\ NoLocations

SpecEval == EvalInit /\ [][EvalNext]_vars

(***************************************************************************)
(* Properties of the metrics, stated in integer arithmetic                 *)
(***************************************************************************)
\* f[1] + ... + f[n] for integers
RECURSIVE ISum(_, _)
ISum(f, n) == IF n = 0 THEN 0 ELSE ISum(f, n - 1) + f[n]
\* sum of squared differences, sum of absolute differences of a and b
SquaredError(a, b) ==
    ISum([i \in 1 .. Len(a) |-> (a[i] - b[i]) * (a[i] - b[i])], Len(a))
AbsoluteError(a, b) ==
    ISum([i \in 1 .. Len(a) |-> Abs(a[i] - b[i])], Len(a))
\* n times the sum of squared deviations of a from its mean:
\* n * sum(a_i^2) - (sum a_i)^2
ScaledSSTot(a) ==
    Len(a) * ISum([i \in 1 .. Len(a) |-> a[i] * a[i]], Len(a))
        - ISum(a, Len(a)) * ISum(a, Len(a))
\* the scalar x is the rational num / den
IsRatio(x, num, den) ==
    x.kind = "finite" /\ x.root = 1 /\ x.q[1] * den = x.q[2] * num
\* m.mse, m.rmse, m.mae are the mean squared error, its non-negative
\* square root and the mean absolute error of a against b
ErrorsByFormula(m, a, b) ==
    /\ IsRatio(m.mse, SquaredError(a, b), Len(a))
    /\ IsRatio(m.mae, AbsoluteError(a, b), Len(a))
    /\ m.rmse.kind = "finite"
    /\ ~RLess(m.rmse.q, Zero)
    /\ RMul(RMul(m.rmse.q, m.rmse.q), FromInt(m.rmse.root)) = m.mse.q
\* m.r2 = 1 - SS_res / SS_tot, for SS_tot # 0:
\* (1 - r2) * n * SS_tot = n * SS_res
R2ByFormula(m, a, b) ==
    /\ m.r2.kind = "finite" /\ m.r2.root = 1
    /\ (m.r2.q[2] - m.r2.q[1]) * ScaledSSTot(a) =
           Len(a) * SquaredError(a, b) * m.r2.q[2]
\* the arrays handed to evaluate_model have the same length, not zero
EqualLengths ==
    Len(y_true.data) = Len(y_pred.data) /\ Len(y_true.data) >= 1
IsConstant(a) == \A i, j \in 1 .. Len(a) : a[i] = a[j]

\* C16: for y_true and y_pred of equal length, not empty, evaluate_model
\* returns MSE = mean of squared differences, RMSE = sqrt(MSE), MAE = mean
\* of absolute differences and, y_true not being constant,
\* R2 = 1 - SS_res / SS_tot.
MetricsByFormula ==
    (metrics # None /\ EqualLengths) =>
        /\ metrics[1].raised = None
        /\ ErrorsByFormula(metrics[1].value[1], y_true.data, y_pred.data)
        /\ ~IsConstant(y_true.data) =>
               R2ByFormula(metrics[1].value[1], y_true.data, y_pred.data)

\* metrics were computed for a y_true that is not constant, with a mean
\* squared error whose root is irrational
FormulaWitness ==
    /\ metrics # None /\ EqualLengths
    /\ ~IsConstant(y_true.data)
    /\ metrics[1].raised = None
    /\ metrics[1].value[1].rmse.root # 1

\* C17: for a y that is not constant, evaluate_model(y, y) gives MSE = 0,
\* RMSE = 0, MAE = 0 and R2 = 1.
MetricIdentity ==
    (metrics # None /\ y_true = y_pred /\ ~IsConstant(y_true.data)) =>
        /\ metrics[1].raised = None
        /\ metrics[1].value[1] =
              [mse |-> Fin(Zero), rmse |-> Fin(Zero), mae |-> Fin(Zero),
               r2 |-> Fin(One)]

\* metrics were computed for a y that is not constant against itself
IdentityWitness ==
    /\ metrics # None
    /\ y_true = y_pred
    /\ ~IsConstant(y_true.data)

\* y_true and y_pred have the same length, not zero, and differ at every
\* position; both calls have been made
BothEvaluated ==
    /\ metrics # None /\ swapped # None
    /\ EqualLengths
    /\ \A i \in 1 .. Len(y_true.data) : y_true.data[i] # y_pred.data[i]
\* the two calls returned the same MSE, RMSE and MAE
SameErrors ==
    /\ metrics[1].raised = None /\ swapped[1].raised = None
    /\ metrics[1].value[1].mse = swapped[1].value[1].mse
    /\ metrics[1].value[1].rmse = swapped[1].value[1].rmse
    /\ metrics[1].value[1].mae = swapped[1].value[1].mae

\* C18 as claimed: for two sequences of equal length that differ at every
\* position, evaluate_model(a, b) and evaluate_model(b, a) give the same
\* MSE, MAE and RMSE and different R2.
SwapChangesR2 ==
    BothEvaluated =>
        /\ SameErrors
        /\ metrics[1].value[1].r2 # swapped[1].value[1].r2

\* C18 as amended: they give the same MSE, MAE and RMSE, and their R2
\* differ exactly when the sums of squared deviations of a and of b from
\* their own means differ.
SwapKeepsErrors ==
    BothEvaluated =>
        /\ SameErrors
        /\ (metrics[1].value[1].r2 # swapped[1].value[1].r2) <=>
              (ScaledSSTot(y_true.data) # ScaledSSTot(y_pred.data))

\* both calls were made for two sequences that differ everywhere, by
\* differences of both signs, and the R2 of the two calls differ
SwapWitness ==
    /\ BothEvaluated
    /\ \E i, j \in 1 .. Len(y_true.data) :
          /\ y_true.data[i] < y_pred.data[i]
          /\ y_true.data[j] > y_pred.data[j]
    /\ metrics[1].value[1].r2 # swapped[1].value[1].r2

\* C19: evaluate_model raises the dimension error when y_true and y_pred
\* differ in length, one of them of length 1 included, and raises when
\* either is empty; it returns no metrics in either case.
EvaluateRejectsBadInput ==
    metrics # None =>
        /\ Len(y_true.data) # Len(y_pred.data) =>
              metrics[1] = Raise(BroadcastError)
        /\ (Len(y_true.data) = 0 \/ Len(y_pred.data) = 0) =>
              (metrics[1].raised # None /\ metrics[1].value = None)

\* C20: when y_true is constant (SS_tot = 0), R2 is what the division by
\* zero gives, nan or -inf and never a finite value, and MSE, RMSE and
\* MAE are the values of their formulas.
UndefinedR2Propagates ==
    (metrics # None /\ EqualLengths /\ IsConstant(y_true.data)) =>
        /\ metrics[1].raised = None
        /\ ErrorsByFormula(metrics[1].value[1], y_true.data, y_pred.data)
        /\ metrics[1].value[1].r2 =
              IF SquaredError(y_true.data, y_pred.data) = 0 THEN NaN
              ELSE NegInf

\* metrics were computed for a constant y_true of two entries and a
\* y_pred that differs from it
UndefinedR2Witness ==
    /\ metrics # None
    /\ Len(y_true.data) = 2 /\ Len(y_pred.data) = 2
    /\ IsConstant(y_true.data)
    /\ y_pred # y_true
    /\ metrics[1].raised = None
    /\ metrics[1].value[1].r2 = NegInf

(***************************************************************************)
(* Feature ranking as task1_main does it:                                  *)
(* analyze_feature_importance(model, feature_names) on a fit model.        *)
(***************************************************************************)
\* at most MaxRankFeatures feature weights in the ranked model
MaxRankFeatures == 3
\* the values of the feature weights, the bias being 1
RankVals == {FromInt(-5), FromInt(-2), Zero, Rat(1, 10), FromInt(2), FromInt(3)}
RankWeights ==
    UNION {{<<One>> \o fw : fw \in [1 .. k -> RankVals]} :
              k \in 0 .. MaxRankFeatures}
\* feature names, in column order; one more than there can be weights
RankNames == <<"A", "B", "C", "D", "E">>
RankNameLists == {SubSeq(RankNames, 1, c) : c \in 0 .. MaxRankFeatures + 1}

\* analyze_feature_importance(model, feature_names)
RankCall ==
    \E r \in AnalyzeFeatureImportance(weights, feature_names) :
        /\ call' = Call("analyze_feature_importance",
                        [NoShape EXCEPT !.names = Len(feature_names)],
                        r.raised, r.value)
        /\ UNCHANGED <<weights, feature_count, the_file>>
        /\ UNCHANGED <<splitVars, dataVars>>

RankNext == RankCall \/ GetFeatureWeightsCall

\* The model has been fit to any of RankWeights; the names are any list.
RankInit ==
    /\ rng = 0
    /\ pc = [p \in Procs |-> "idle"]
    /\ args = [p \in Procs |-> NoArgs]
    /\ out = [p \in Procs |-> None]
    /\ \E w \in RankWeights :
          /\ weights = Some(Array1(w))
          /\ feature_count = Some(Len(w) - 1)
    /\ the_file = None
    /\ call = Call("fit", NoShape, None, None)
    /\ X_train = [ndim |-> 2, r |-> 0, c |-> 0, a |-> << >>]
    /\ y_train = << >>
    /\ feature_names \in RankNameLists
    /\ NoEvaluation
    /\ NoRecommender
    /\ NoLocations

SpecRank == RankInit /\ [][RankNext]_vars

\* a table has been returned for as many names as feature weights
Ranked ==
    /\ call.op = "analyze_feature_importance"
    /\ Len(feature_names) = Len(weights[1].data) - 1
    /\ Len(feature_names) >= 1
\* the position of a name in feature_names
PositionOf(name) == CHOOSE i \in 1 .. Len(feature_names) : feature_names[i] = name

\* C21: for a model with k >= 1 feature weights and k names the table has
\* k rows, one per feature; the row of feature i holds name i, w[i] (the
\* bias w[0] left out) and |w[i]|, and absolute weight never increases
\* from one row to the next.
TableByAbsoluteWeight ==
    Ranked =>
        /\ call.raised = None
        /\ call.value # None
        /\ LET t == call.value[1]
               k == Len(feature_names)
               w == weights[1].data
           IN  /\ Len(t) = k
               /\ \A i \in 1 .. k :
                     \E r \in 1 .. k :
                        /\ t[r].Feature = feature_names[i]
                        /\ t[r].Weight = w[i + 1]
                        /\ t[r].AbsoluteWeight = Rat(Abs(w[i + 1][1]), w[i + 1][2])
               /\ \A r \in 1 .. k - 1 :
                     ~RLess(t[r].AbsoluteWeight, t[r + 1].AbsoluteWeight)

\* a table of MaxRankFeatures rows has been returned whose first feature
\* is in the last row
TableWitness ==
    /\ Ranked
    /\ call.raised = None
    /\ Len(feature_names) = MaxRankFeatures
    /\ call.value[1][MaxRankFeatures].Feature = feature_names[1]
    /\ RLess(call.value[1][MaxRankFeatures].AbsoluteWeight,
             call.value[1][1].AbsoluteWeight)

\* the model with bias 1 and feature weights -5, 3, 0.1 has been ranked
\* with the names A, B, C
ToyRanked ==
    /\ call.op = "analyze_feature_importance"
    /\ weights = Some(Array1(<<One, FromInt(-5), FromInt(3), Rat(1, 10)>>))
    /\ feature_names = <<"A", "B", "C">>
Row(name, w, abs) == [Feature |-> name, Weight |-> w, AbsoluteWeight |-> abs]

\* C22 as claimed: for the weights [bias=1, w1=-5, w2=3, w3=0.1] and the
\* names [A, B, C] the ranking is [B(-5), A(3), C(0.1)].
ToyRankingAsClaimed ==
    ToyRanked =>
        call.value = Some(<<Row("B", FromInt(-5), FromInt(5)),
                            Row("A", FromInt(3), FromInt(3)),
                            Row("C", Rat(1, 10), Rat(1, 10))>>)

\* C22 as amended: the ranking is [A(-5), B(3), C(0.1)], every weight
\* under the name of its own column.
ToyRanking ==
    ToyRanked =>
        /\ call.raised = None
        /\ call.value = Some(<<Row("A", FromInt(-5), FromInt(5)),
                               Row("B", FromInt(3), FromInt(3)),
                               Row("C", Rat(1, 10), Rat(1, 10))>>)

\* the ranking of the toy model has returned
ToyRankingWitness ==
    ToyRanked /\ call.raised = None /\ call.value # None

\* C23: features of equal absolute weight are in the table in the order
\* of their columns (the sort is stable).
StableRanking ==
    (Ranked /\ call.raised = None) =>
        LET t == call.value[1]
        IN  \A r, q \in 1 .. Len(t) :
               (r < q /\ t[r].AbsoluteWeight = t[q].AbsoluteWeight) =>
                   PositionOf(t[r].Feature) < PositionOf(t[q].Feature)

\* C24: when the number of names is not the number k of feature weights
\* of the model, fewer or more, analyze_feature_importance raises the
\* length error and returns no table.
RankRejectsWrongNames ==
    (/\ call.op = "analyze_feature_importance"
     /\ Len(feature_names) # Len(weights[1].data) - 1) =>
        (call.raised = Some(LengthError) /\ call.value = None)

\* the ranking has raised for one name and more than one feature weight
WrongNamesWitness ==
    /\ call.op = "analyze_feature_importance"
    /\ Len(feature_names) = 1
    /\ Len(weights[1].data) - 1 > 1
    /\ call.raised = Some(LengthError)

\* C25: loading the file save_model_weights wrote for a model gives a
\* model with the same weight vector, element for element and bias first,
\* on which predict and get_feature_weights answer as on the saved model,
\* for every k >= 0.
SaveLoadRoundTrip ==
    [][(/\ call'.op = "load_model_weights"
        /\ call'.raised = None
        /\ weights # None
        /\ SaveModelWeights(weights, None).file = the_file) =>
          /\ weights' = weights
          /\ GetFeatureWeights(weights') = GetFeatureWeights(weights)
          /\ \A X \in XInputs : Predict(weights', X) = Predict(weights, X)]_vars

\* C27: a fit that raises re-raises the exception of the failing statement
\* and leaves weights and feature_count as they were before the call.
FailedFitLeavesModel ==
    [][(call'.op = "fit" /\ call'.raised # None) =>
          /\ call'.raised \in {Some(ShapeError), Some(IndexError)}
          /\ weights' = weights
          /\ feature_count' = feature_count]_vars

(***************************************************************************)
(* location_preprocessing.py: clean_coordinates                            *)
(***************************************************************************)
\* at most MaxLocRows rows in the table
MaxLocRows == 2
\* A coordinate is None (NaN) or Some(degrees).
Latitudes == {None} \cup {Some(v) : v \in {-91, -90, 0, 90, 91}}
Longitudes == {None} \cup {Some(v) : v \in {-181, -180, 0, 180, 181}}
\* a row before the call: no has_coordinates column yet
LocationRows ==
    {[Latitude |-> la, Longitude |-> lo, has_coordinates |-> None] :
        la \in Latitudes, lo \in Longitudes}
LocationTables == UNION {[1 .. n -> LocationRows] : n \in 0 .. MaxLocRows}

\* line 78: has_coordinates = both coordinates are not NaN
FlagCoordinates(df) ==
    SubSeq([i \in 1 .. Len(df) |->
               [df[i] EXCEPT !.has_coordinates =
                   Some(df[i].Latitude # None /\ df[i].Longitude # None)]],
           1, Len(df))
\* x < low or x > high; False for NaN
OutOfRange(x, low, high) == x # None /\ (x[1] < low \/ x[1] > high)
\* lines 85-89: latitudes outside [-90, 90] become NaN
ValidateLatitude(df) ==
    IF \E i \in 1 .. Len(df) : df[i].Latitude # None
    THEN SubSeq([i \in 1 .. Len(df) |->
                    IF OutOfRange(df[i].Latitude, -90, 90)
                    THEN [df[i] EXCEPT !.Latitude = None] ELSE df[i]],
                1, Len(df))
    ELSE df
\* lines 91-95: longitudes outside [-180, 180] become NaN
ValidateLongitude(df) ==
    IF \E i \in 1 .. Len(df) : df[i].Longitude # None
    THEN SubSeq([i \in 1 .. Len(df) |->
                    IF OutOfRange(df[i].Longitude, -180, 180)
                    THEN [df[i] EXCEPT !.Longitude = None] ELSE df[i]],
                1, Len(df))
    ELSE df
\* clean_coordinates(df): the flag first, the range checks after it
CleanCoordinates(df) == ValidateLongitude(ValidateLatitude(FlagCoordinates(df)))

\* df = clean_coordinates(df)
CleanCall ==
    /\ location_df' = CleanCoordinates(location_df)
    /\ UNCHANGED <<splitVars, modelVars, trainVars, evalVars, recVars>>

LocNext == CleanCall

\* The table is any of LocationTables, not cleaned yet.
LocInit ==
    /\ rng = 0
    /\ pc = [p \in Procs |-> "idle"]
    /\ args = [p \in Procs |-> NoArgs]
    /\ out = [p \in Procs |-> None]
    /\ ModelStart
    /\ NoTraining
    /\ NoEvaluation
    /\ NoRecommender
    /\ location_df \in LocationTables

SpecLoc == LocInit /\ [][LocNext]_vars

\* C30: after clean_coordinates the has_coordinates flag of a row is true
\* exactly when its Latitude and Longitude are both present in the table,
\* so a flagged row has a latitude in [-90, 90] and a longitude in
\* [-180, 180].
FlagMeansCoordinates ==
    \A i \in 1 .. Len(location_df) :
        location_df[i].has_coordinates # None =>
            /\ location_df[i].has_coordinates[1] =
                  (location_df[i].Latitude # None /\ location_df[i].Longitude # None)
            /\ location_df[i].has_coordinates[1] =>
                  /\ location_df[i].Latitude[1] \in -90 .. 90
                  /\ location_df[i].Longitude[1] \in -180 .. 180

(***************************************************************************)
(* recommendation_engine.py: RestaurantRecommender                         *)
(*                                                                         *)
(* A str is the sequence of its characters; "A" and "B" are the upper case *)
(* of "a" and "b", "." is the full stop.  A DataFrame is the sequence of   *)
(* its rows, each row a record of its columns and its index label.         *)
(* Ratings are multiples of 0.5, which float64 adds, subtracts and         *)
(* compares exactly; they are kept as rationals.                           *)
(***************************************************************************)
\* at most MaxRestaurants rows in the table
MaxRestaurants == 2

\* str.lower()
LowerChar(c) == IF c = "A" THEN "a" ELSE IF c = "B" THEN "b" ELSE c
Lower(s) == SubSeq([i \in 1 .. Len(s) |-> LowerChar(s[i])], 1, Len(s))

\* re: the pattern matches s at offset k; "." matches any character and
\* every other character of the alphabet matches itself
MatchesAt(pat, s, k) ==
    \A i \in 1 .. Len(pat) : pat[i] = "." \/ pat[i] = s[k + i - 1]
\* re.search(pat, s) finds a match
Search(pat, s) == \E k \in 1 .. (Len(s) - Len(pat) + 1) : MatchesAt(pat, s, k)
\* Series.str.contains(pat, na=False) of one cell: regex=True by default
StrContains(s, pat) == Search(pat, s)
\* Series.str.contains(pat, case=False, na=False) of one cell
StrContainsNoCase(s, pat) == Search(Lower(pat), Lower(s))

\* one row of the restaurant table; rating2 is twice the rating
Restaurant(name, cuisines, city, price, rating2, votes, delivery, booking, cost) ==
    [Restaurant_Name |-> name, Cuisines |-> cuisines, City |-> city,
     Price_range |-> price, Aggregate_rating |-> Rat(rating2, 2),
     Votes |-> votes, Has_Online_delivery |-> delivery,
     Has_Table_booking |-> booking, Average_Cost_for_two |-> cost]
\* the rows a table is made of
Catalogue ==
    {Restaurant(<<"a", "b">>, <<"a", "b">>, <<"a">>, 1, 8, 2, "Yes", "No", 1),
     Restaurant(<<"A", "b">>, <<"a">>, <<"a">>, 2, 8, 1, "Yes", "Yes", 2),
     Restaurant(<<"b">>, <<"b">>, <<"b">>, 3, 10, 3, "No", "Yes", 3),
     Restaurant(<<"a", ".">>, <<"B">>, <<"A">>, 4, 0, 3, "No", "No", 2),
     Restaurant(<<"b", "a">>, <<"b", "a">>, <<"b">>, 2, 0, 1, "Yes", "No", 1),
     Restaurant(<<"a">>, <<"a">>, <<"a">>, 2, 7, 0, "Yes", "No", 1),
     Restaurant(<<"a", "b">>, <<"a">>, <<"a">>, 2, 7, 0, "No", "No", 2)}
\* a DataFrame of these rows under the default index
WithIndex(rows) ==
    SubSeq([i \in 1 .. Len(rows) |-> [index |-> i] @@ rows[i]], 1, Len(rows))
RestaurantTables ==
    {WithIndex(rows) : rows \in UNION {[1 .. n -> Catalogue] : n \in 0 .. MaxRestaurants}}

\* prepare_features: the lower-case columns and the popularity score
PrepareFeatures(df) ==
    SubSeq([i \in 1 .. Len(df) |->
               [Cuisines_lower |-> Lower(df[i].Cuisines),
                City_lower |-> Lower(df[i].City),
                popularity_score |->
                    RMul(FromInt(df[i].Votes), df[i].Aggregate_rating)] @@ df[i]],
           1, Len(df))

\* df[mask]: the rows whose index is in keep, in their order
RECURSIVE Select(_, _)
Select(df, keep) ==
    IF df = << >> THEN << >>
    ELSE (IF Head(df).index \in keep THEN <<Head(df)>> ELSE << >>)
             \o Select(Tail(df), keep)
\* a <= b on floats
RLeq(a, b) == ~RLess(b, a)

\* user_preferences is a dict: every key holds Some(value) when it is
\* present and None when it is not
PreferenceKeys ==
    {"cuisines", "price_range", "min_rating", "city", "has_online_delivery",
     "has_table_booking", "max_cost"}
NoPreferences == [key \in PreferenceKeys |-> None]
\* the dict {key: value}
Only(key, value) == [NoPreferences EXCEPT ![key] = Some(value)]
\* key in user_preferences
Has(prefs, key) == prefs[key] # None

\* lines 85-89: the cuisine filter, skipped for an empty text
FilterCuisine(df, prefs) ==
    IF Has(prefs, "cuisines") /\ prefs["cuisines"][1] # << >>
    THEN Select(df, {df[i].index : i \in
             {j \in 1 .. Len(df) :
                 StrContains(df[j].Cuisines_lower, Lower(prefs["cuisines"][1]))}})
    ELSE df
\* lines 93-99: the price range within 1 of the preferred one
FilterPrice(df, prefs) ==
    IF Has(prefs, "price_range")
    THEN Select(df, {df[i].index : i \in
             {j \in 1 .. Len(df) :
                 /\ df[j].Price_range >= prefs["price_range"][1] - 1
                 /\ df[j].Price_range <= prefs["price_range"][1] + 1}})
    ELSE df
\* lines 103-107: the rating at least min_rating
FilterRating(df, prefs) ==
    IF Has(prefs, "min_rating")
    THEN Select(df, {df[i].index : i \in
             {j \in 1 .. Len(df) :
                 RLeq(prefs["min_rating"][1], df[j].Aggregate_rating)}})
    ELSE df
\* lines 111-115: the city filter, skipped for an empty text
FilterCity(df, prefs) ==
    IF Has(prefs, "city") /\ prefs["city"][1] # << >>
    THEN Select(df, {df[i].index : i \in
             {j \in 1 .. Len(df) :
                 StrContains(df[j].City_lower, Lower(prefs["city"][1]))}})
    ELSE df
\* lines 119-123
FilterDelivery(df, prefs) ==
    IF Has(prefs, "has_online_delivery")
    THEN Select(df, {df[i].index : i \in
             {j \in 1 .. Len(df) :
                 df[j].Has_Online_delivery = prefs["has_online_delivery"][1]}})
    ELSE df
\* lines 127-131
FilterBooking(df, prefs) ==
    IF Has(prefs, "has_table_booking")
    THEN Select(df, {df[i].index : i \in
             {j \in 1 .. Len(df) :
                 df[j].Has_Table_booking = prefs["has_table_booking"][1]}})
    ELSE df
\* lines 135-139
FilterCost(df, prefs) ==
    IF Has(prefs, "max_cost")
    THEN Select(df, {df[i].index : i \in
             {j \in 1 .. Len(df) :
                 df[j].Average_Cost_for_two <= prefs["max_cost"][1]}})
    ELSE df
\* lines 79-140: the filters in the order of the code
ApplyFilters(df, prefs) ==
    FilterCost(FilterBooking(FilterDelivery(FilterCity(FilterRating(
        FilterPrice(FilterCuisine(df, prefs), prefs), prefs), prefs), prefs),
        prefs), prefs)

\* row a sorts before row b: the rating, then the popularity score, then the
\* votes, each descending
SortsBefore(a, b) ==
    \/ RLess(b.Aggregate_rating, a.Aggregate_rating)
    \/ /\ b.Aggregate_rating = a.Aggregate_rating
       /\ \/ RLess(b.popularity_score, a.popularity_score)
          \/ /\ b.popularity_score = a.popularity_score
             /\ b.Votes < a.Votes
\* the position of the row that comes first: the earliest of those no other
\* row sorts before (the sort on several columns is stable)
FirstOf(df) ==
    CHOOSE i \in 1 .. Len(df) :
        /\ \A j \in 1 .. Len(df) : ~SortsBefore(df[j], df[i])
        /\ \A j \in 1 .. i - 1 : SortsBefore(df[i], df[j])
\* the table without its row at position i
Without(df, i) == SubSeq(df, 1, i - 1) \o SubSeq(df, i + 1, Len(df))
\* lines 143-146: sort_values(by=[rating, popularity, votes], all descending)
RECURSIVE SortValues(_)
SortValues(df) ==
    IF df = << >> THEN << >>
    ELSE <<df[FirstOf(df)]>> \o SortValues(Without(df, FirstOf(df)))

\* line 187: the largest vote count of the rows, 1 for no rows
\* (the smallest vote count)
MaxVotesMutant(rows) ==
    IF Len(rows) > 0
    THEN CHOOSE v \in {rows[i].Votes : i \in 1 .. Len(rows)} :
             \A i \in 1 .. Len(rows) : rows[i].Votes >= v
    ELSE 1
MaxVotes(rows) ==
    IF Len(rows) > 0
    THEN CHOOSE v \in {rows[i].Votes : i \in 1 .. Len(rows)} :
             \A i \in 1 .. Len(rows) : rows[i].Votes <= v
    ELSE 1
\* lines 180-199: the score of one row.  The score is kept as the exact
\* rational; float64 rounds each step monotonically, so a bound that the
\* exact terms 40, 30, 20 and 10 keep is kept by the floats too.
ScoreOf(row, max_votes, prefs) ==
    RAdd(RAdd(RAdd(
        RMul(RDiv(row.Aggregate_rating, FromInt(5)), FromInt(40)),
        IF max_votes > 0
        THEN RMul(Rat(row.Votes, max_votes), FromInt(30)) ELSE Zero),
        IF Has(prefs, "price_range") /\ row.Price_range = prefs["price_range"][1]
        THEN FromInt(20) ELSE Zero),
        IF /\ Has(prefs, "has_online_delivery")
           /\ row.Has_Online_delivery = prefs["has_online_delivery"][1]
        THEN FromInt(10) ELSE Zero)
\* _calculate_match_score(restaurants, preferences): one score per row
CalculateMatchScore(rows, prefs) ==
    SubSeq([i \in 1 .. Len(rows) |->
               ScoreOf(rows[i], MaxVotes(rows), prefs)],
           1, Len(rows))
\* lines 149-156: the first top_n rows with their match_score column
WithScores(rows, prefs) ==
    SubSeq([i \in 1 .. Len(rows) |->
               [match_score |-> CalculateMatchScore(rows, prefs)[i]] @@ rows[i]],
           1, Len(rows))
\* get_recommendations(user_preferences, top_n) on the prepared table
GetRecommendations(df, prefs, top_n) ==
    WithScores(SliceTo(SortValues(ApplyFilters(df, prefs)), top_n), prefs)

\* lines 220-222: the rows whose name matches the text, case ignored
NameMatches(df, restaurant_name) ==
    Select(df, {df[i].index : i \in
        {j \in 1 .. Len(df) :
            StrContainsNoCase(df[j].Restaurant_Name, restaurant_name)}})
\* lines 231-236: the preferences taken from the reference restaurant
SimilarPreferences(ref) ==
    [NoPreferences EXCEPT
        !["cuisines"] = Some(ref.Cuisines),
        !["price_range"] = Some(ref.Price_range),
        !["min_rating"] = Some(RAdd(ref.Aggregate_rating, Rat(-1, 2))),
        !["city"] = Some(ref.City)]
\* lines 242-244: the rows of another name
ExcludeName(df, name) ==
    Select(df, {df[i].index : i \in
        {j \in 1 .. Len(df) : df[j].Restaurant_Name # name}})
\* get_similar_restaurants(restaurant_name, top_n) on the prepared table
GetSimilarRestaurants(df, restaurant_name, top_n) ==
    IF NameMatches(df, restaurant_name) = << >> THEN << >>
    ELSE LET ref == NameMatches(df, restaurant_name)[1]
         IN  SliceTo(ExcludeName(GetRecommendations(df, SimilarPreferences(ref),
                                                    top_n + 1),
                                 ref.Restaurant_Name),
                     top_n)

\* the texts of a cuisine or city preference, "" among them
PreferenceTexts == {<< >>, <<"a">>, <<"A">>, <<".">>, <<"a", "b">>}
\* the dicts of preferences: none, each key alone, and keys together
PreferenceSets ==
    {NoPreferences}
    \cup {Only("cuisines", t) : t \in PreferenceTexts}
    \cup {Only("price_range", p) : p \in 1 .. 4}
    \cup {Only("min_rating", r) : r \in {Rat(7, 2), FromInt(4), FromInt(5)}}
    \cup {Only("city", t) : t \in {<<"B">>, <<".">>}}
    \cup {Only("has_online_delivery", d) : d \in {"Yes", "No"}}
    \cup {Only("has_table_booking", "Yes")}
    \cup {Only("max_cost", c) : c \in {1, 2}}
    \cup {[Only("price_range", p) EXCEPT !["has_online_delivery"] = Some(d)] :
             p \in 1 .. 3, d \in {"Yes", "No"}}
    \cup {[cuisines |-> Some(<<"a">>), price_range |-> Some(2),
           min_rating |-> Some(Rat(7, 2)), city |-> Some(<<"a">>),
           has_online_delivery |-> Some("Yes"),
           has_table_booking |-> Some("No"), max_cost |-> Some(2)]}
\* the texts a similar restaurant is looked up by
NameTexts == {<<"a">>, <<"A", "B">>, <<".">>, <<"b", "b">>, <<"b", ".">>}
\* the values of top_n
TopNs == 0 .. MaxRestaurants
\* the calls of the program: get_recommendations(user_preferences, top_n)
\* and get_similar_restaurants(restaurant_name, top_n)
Requests ==
    {[op |-> "recommend", user_preferences |-> p, restaurant_name |-> << >>,
      top_n |-> n] : p \in PreferenceSets, n \in TopNs}
    \cup {[op |-> "similar", user_preferences |-> NoPreferences,
           restaurant_name |-> t, top_n |-> n] : t \in NameTexts, n \in TopNs}

\* recommender.prepare_features()
PrepareFeaturesCall ==
    /\ ~features_prepared
    /\ result = None
    /\ restaurants' = PrepareFeatures(restaurants)
    /\ features_prepared' = TRUE
    /\ UNCHANGED <<request, result>>
    /\ UNCHANGED <<splitVars, modelVars, trainVars, evalVars, locVars>>

\* result = recommender.get_recommendations(user_preferences, top_n); the
\* features are prepared first when they are not yet (lines 75-76)
GetRecommendationsCall ==
    /\ request.op = "recommend"
    /\ result = None
    /\ restaurants' = IF features_prepared THEN restaurants
                      ELSE PrepareFeatures(restaurants)
    /\ features_prepared' = TRUE
    /\ result' = Some(GetRecommendations(restaurants', request.user_preferences,
                                         request.top_n))
    /\ UNCHANGED request
    /\ UNCHANGED <<splitVars, modelVars, trainVars, evalVars, locVars>>

\* result = recommender.get_similar_restaurants(restaurant_name, top_n); it
\* returns before anything is prepared when no name matches (lines 224-226)
GetSimilarCall ==
    /\ request.op = "similar"
    /\ result = None
    /\ IF NameMatches(restaurants, request.restaurant_name) = << >>
       THEN /\ result' = Some(<< >>)
            /\ UNCHANGED <<restaurants, features_prepared>>
       ELSE /\ restaurants' = IF features_prepared THEN restaurants
                              ELSE PrepareFeatures(restaurants)
            /\ features_prepared' = TRUE
            /\ result' = Some(GetSimilarRestaurants(restaurants',
                                  request.restaurant_name, request.top_n))
    /\ UNCHANGED request
    /\ UNCHANGED <<splitVars, modelVars, trainVars, evalVars, locVars>>

RecNext == PrepareFeaturesCall \/ GetRecommendationsCall \/ GetSimilarCall

\* RestaurantRecommender(df) over any of RestaurantTables, and the one call
\* the run makes on it.
RecInit ==
    /\ rng = 0
    /\ pc = [p \in Procs |-> "idle"]
    /\ args = [p \in Procs |-> NoArgs]
    /\ out = [p \in Procs |-> None]
    /\ ModelStart
    /\ NoTraining
    /\ NoEvaluation
    /\ NoLocations
    /\ restaurants \in RestaurantTables
    /\ features_prepared = FALSE
    /\ request \in Requests
    /\ result = None

SpecRec == RecInit /\ [][RecNext]_vars

(***************************************************************************)
(* Properties of the recommender                                           *)
(***************************************************************************)
\* the text occurs in s, character for character, case ignored
Contained(text, s) ==
    \E k \in 1 .. (Len(s) - Len(text) + 1) :
        \A i \in 1 .. Len(text) : LowerChar(text[i]) = LowerChar(s[k + i - 1])
\* the row satisfies every preference that is present
MatchesPreferences(row, prefs) ==
    /\ prefs["cuisines"] # None => Contained(prefs["cuisines"][1], row.Cuisines)
    /\ prefs["price_range"] # None =>
           /\ row.Price_range >= prefs["price_range"][1] - 1
           /\ row.Price_range <= prefs["price_range"][1] + 1
    /\ prefs["min_rating"] # None =>
           ~RLess(row.Aggregate_rating, prefs["min_rating"][1])
    /\ prefs["city"] # None => Contained(prefs["city"][1], row.City)
    /\ prefs["has_online_delivery"] # None =>
           row.Has_Online_delivery = prefs["has_online_delivery"][1]
    /\ prefs["has_table_booking"] # None =>
           row.Has_Table_booking = prefs["has_table_booking"][1]
    /\ prefs["max_cost"] # None => row.Average_Cost_for_two <= prefs["max_cost"][1]
\* votes x rating
Popularity(row) == RMul(FromInt(row.Votes), row.Aggregate_rating)
\* row a is strictly ahead of row b in the claimed order
Outranks(a, b) ==
    \/ RLess(b.Aggregate_rating, a.Aggregate_rating)
    \/ /\ a.Aggregate_rating = b.Aggregate_rating
       /\ \/ RLess(Popularity(b), Popularity(a))
          \/ Popularity(a) = Popularity(b) /\ b.Votes < a.Votes
\* the table positions of the rows that match the preferences
Matching(prefs) ==
    {i \in 1 .. Len(restaurants) : MatchesPreferences(restaurants[i], prefs)}
\* rows are rows of the table, each at most once
RowsOfTable(rows) ==
    /\ \A k \in 1 .. Len(rows) :
           /\ rows[k].index \in 1 .. Len(restaurants)
           /\ \A c \in DOMAIN restaurants[rows[k].index] :
                  rows[k][c] = restaurants[rows[k].index][c]
    /\ \A k, l \in 1 .. Len(rows) : rows[k].index = rows[l].index => k = l

\* C26: get_recommendations returns the first min(top_n, matches) rows of the
\* matching set (every present preference satisfied, texts by containment)
\* in the order rating, popularity, votes, each descending.
RecommendationsAsClaimed ==
    (request # None /\ request.op = "recommend" /\ result # None) =>
        LET rows == result[1]
            m == Matching(request.user_preferences)
        IN  /\ Len(rows) = Min(request.top_n, Cardinality(m))
            /\ RowsOfTable(rows)
            /\ \A k \in 1 .. Len(rows) : rows[k].index \in m
            /\ \A k, l \in 1 .. Len(rows) : k < l => ~Outranks(rows[l], rows[k])
            /\ \A i \in m : \A k \in 1 .. Len(rows) :
                   Outranks(restaurants[i], rows[k]) =>
                       \E l \in 1 .. Len(rows) : rows[l].index = i

\* C28: every match score of a result lies in 0 .. 100, an empty result and
\* a result whose votes are all 0 included.
ScoresInRange ==
    result # None =>
        \A k \in 1 .. Len(result[1]) :
            /\ ~RLess(result[1][k].match_score, Zero)
            /\ ~RLess(FromInt(100), result[1][k].match_score)
\* a returned restaurant scores the full 100, and one with no votes is scored
ScoresWitness ==
    /\ result # None
    /\ \E k \in 1 .. Len(result[1]) : result[1][k].match_score = FromInt(100)
    /\ \E k \in 1 .. Len(result[1]) : result[1][k].Votes = 0

\* the table positions of the rows whose name contains the text
NamedLike(text) ==
    {i \in 1 .. Len(restaurants) : Contained(text, restaurants[i].Restaurant_Name)}
\* the row satisfies the preferences derived from the reference restaurant
SimilarTo(row, ref) ==
    /\ Contained(ref.Cuisines, row.Cuisines)
    /\ row.Price_range >= ref.Price_range - 1
    /\ row.Price_range <= ref.Price_range + 1
    /\ ~RLess(row.Aggregate_rating, RAdd(ref.Aggregate_rating, Rat(-1, 2)))
    /\ Contained(ref.City, row.City)

\* C29: get_similar_restaurants returns an empty table when no name contains
\* the text; otherwise at most top_n rows, none with the name of the first
\* name match, each satisfying the preferences derived from it.
SimilarAsClaimed ==
    (request # None /\ request.op = "similar" /\ result # None) =>
        LET rows == result[1]
            named == NamedLike(request.restaurant_name)
        IN  IF named = {} THEN rows = << >>
            ELSE LET ref == restaurants[CHOOSE i \in named : \A j \in named : i <= j]
                 IN  /\ Len(rows) <= request.top_n
                     /\ \A k \in 1 .. Len(rows) :
                            /\ rows[k].Restaurant_Name # ref.Restaurant_Name
                            /\ SimilarTo(rows[k], ref)

=============================================================================
